---- MODULE Spec2Model ----
(***************************************************************************)
(* goPing: the main ping loop, one probe (ping), the statistics it keeps,  *)
(* the summary (showStatistics) and the signal-handling goroutine          *)
(* (closeHandler), as two threads interleaved statement by statement.      *)
(*                                                                         *)
(* Durations (time.Duration) are counted in microseconds; only the jitter  *)
(* field is kept in nanoseconds, because the integer division that         *)
(* produces it truncates at one nanosecond.  The float64 loss is kept as   *)
(* the exact fraction it approximates, in lowest terms.                    *)
(***************************************************************************)
EXTENDS Integers, Sequences, FiniteSets, TLC

\* ------------------------------------------------------------------ bounds

\* The largest finite -c value tried, and the number of iterations an
\* unbounded run (-c -1) is followed for.
MaxCount == 3

\* The number of iterations a long unbounded run is followed for, from
\* LongRunStart probes on.
LongRunProbes == 2

\* --------------------------------------------------------------- constants

protocolICMP4 == 1
protocolICMP6 == 58
\* The value a negative -ttl is replaced by; also the system's default TTL.
DefaultTTL == 64
\* 10 * time.Second, the read deadline, in microseconds.
ReadDeadline == 10000000
\* 10 * time.Microsecond, the unit RTTs are rounded to, in microseconds.
RoundUnit == 10
\* time.Microsecond, in nanoseconds.
Microsecond == 1000
\* os.Getpid(): a process id wider than 16 bits.
Pid == 70000
\* 0xffff + 1: identifier and sequence number are 16 bits on the wire.
Uint16 == 65536
\* ICMP type numbers (golang.org/x/net/ipv4 and ipv6).
ICMPTypeEcho == 8
ICMPTypeEchoReply == 0
ICMPTypeTimeExceeded == 11
ICMPv6TypeEchoRequest == 128
ICMPv6TypeEchoReply == 129
ICMPv6TypeNeighborSolicitation == 135
ICMPv6TypeNeighborAdvertisement == 136

\* ------------------------------------------------------------------ inputs

\* The -c, -ttl and -ipv values given on the command line.  -ttl is given on
\* the runs of one probe; the other runs leave it at its default.
PingCountFlags == {-2, -1, 0, 1, MaxCount}
TimeToLiveFlags == {-1, 0, 7, 300}
IPVersionFlags == {4, 6}

\* time.Since(timeSent) when a reply was read, in microseconds: one rounds
\* down to 20ms, one up to 15ms.
ReplyElapsed == {20004, 14996}

Threads == {"main", "handler"}

\* The probes already made where the long run is taken up: the next probe
\* carries the largest 16-bit sequence number.
LongRunStart == Uint16 - 1

\* The iterations followed: the first MaxCount of a run, and LongRunProbes
\* more of a long run.
Followed(n) ==
    \/ n < MaxCount
    \/ n >= LongRunStart /\ n < LongRunStart + LongRunProbes

VARIABLES
    pingCount,            \* *pingCount
    timeToLive,           \* *timeToLive
    ipVersion,            \* *ipVersion
    ttl,                  \* global ttl
    wantIPv6,             \* global wantIPv6
    i,                    \* the loop variable of the main ping loop
    logErr,               \* the error ping returned to the loop ("nil": none)
    count,                \* stats.count
    lost,                 \* stats.lost
    rtt,                  \* stats.rtt
    loss,                 \* stats.loss
    rttAll,               \* stats.rttAll
    totalDifferencesRTT,  \* stats.totalDifferencesRTT
    jitter,               \* stats.jitter (nanoseconds)
    listenPacket,         \* the raw socket of the running ping call
    request,              \* the echo request of the running ping call
    reply,                \* replyEncoded[:replyRead] of the running ping call
    pc,                   \* where each thread is (source line of its next statement)
    val,                  \* showStatistics: the range index, per thread
    rng,                  \* showStatistics: the length of the ranged slice, per thread
    acc,                  \* showStatistics: the loaded sum being added to, per thread
    summaries,            \* the summary lines printed so far
    exited,               \* how the process ended ("no": still running)
    allTimedOut,          \* history: every probe read so far hit the deadline
    pendingAtSignal,      \* history: the read pending when the signal came still is
    delivered,            \* history: a signal was delivered after signal.Notify
    line,                 \* the report line the iteration just ended printed
    unread                \* history: the iteration's probe returned before its read

vars == <<pingCount, timeToLive, ipVersion, ttl, wantIPv6, i, logErr, count, lost,
          rtt, loss, rttAll, totalDifferencesRTT, jitter, listenPacket, request,
          reply, pc, val, rng, acc, summaries, exited, allTimedOut,
          pendingAtSignal, delivered, line, unread>>

flagVars == <<pingCount, timeToLive, ipVersion, ttl, wantIPv6>>
statVars == <<count, lost, rtt, loss, rttAll, totalDifferencesRTT, jitter>>
pingVars == <<listenPacket, request, reply>>
showVars == <<val, rng, acc>>

\* --------------------------------------------------------- pure functions

RECURSIVE GCD(_, _)
GCD(a, b) == IF b = 0 THEN a ELSE GCD(b, a % b)

\* A fraction in lowest terms.
Fraction(n, d) == LET g == GCD(n, d) IN [num |-> n \div g, den |-> d \div g]

\* The float64 zero value of stats.loss.
ZeroLoss == [num |-> 0, den |-> 1]

\* Mutant: the ratio is not scaled to a percentage.
LossPercent_Unscaled(l, c) == Fraction(l, c)

\* (float64(stats.lost) / float64(stats.count)) * 100.0
LossPercent(l, c) == Fraction(l * 100, c)

\* Duration.Round(m) of a non-negative duration: to the nearest multiple of m,
\* halfway values away from zero.
Round(d, m) == LET r == d % m IN IF r + r < m THEN d - r ELSE d + m - r

\* diff := a - b; if diff < 0 { diff = -diff }
AbsDiff(a, b) == IF a - b < 0 THEN -(a - b) ELSE a - b

\* time.Duration(int64(total) / int64(n)), in nanoseconds.
JitterOf(total, n) == (total * Microsecond) \div n

\* No socket, no message, nothing read, no report line.
NoLine == [Seq |-> -1, RTT |-> 0, Loss |-> ZeroLoss]
NoSocket == [open |-> FALSE, ttl |-> 0]
NoMessage == [Type |-> -1, ID |-> 0, Seq |-> 0]
NoPacket == [len |-> 0, Type |-> 0, ID |-> 0, Seq |-> 0]

\* The family-specific parameters ping selects.
MessageType(v6) == IF v6 THEN ICMPv6TypeEchoRequest ELSE ICMPTypeEcho
ProtocolICMP(v6) == IF v6 THEN protocolICMP6 ELSE protocolICMP4

\* The TTL / hop limit a socket may carry after SetTTL(t) / SetHopLimit(t),
\* whose error is discarded, when it carried old before: the field is 8 bits
\* wide, so a larger t is refused; an IPv4 socket refuses 0 on some systems.
SetTTLResults(v6, t, old) ==
    IF t > 255 THEN {old}
    ELSE IF ~v6 /\ t = 0 THEN {old, t}
    ELSE {t}

\* The echo request ping builds: ID = os.Getpid() & 0xffff, Seq = stats.count.
EchoRequest(v6, c) == [Type |-> MessageType(v6), ID |-> Pid % Uint16, Seq |-> c]

\* request.Marshal: identifier and sequence number are written as 16 bits.
Marshal(m) == [Type |-> m.Type, ID |-> m.ID % Uint16, Seq |-> m.Seq % Uint16]

\* The echo reply type of the family a request type belongs to, and of the other.
EchoReplyType(t) == IF t = ICMPv6TypeEchoRequest THEN ICMPv6TypeEchoReply ELSE ICMPTypeEchoReply
OtherEchoReplyType(t) == IF t = ICMPv6TypeEchoRequest THEN ICMPTypeEchoReply ELSE ICMPv6TypeEchoReply

\* What the raw socket may hand to ReadFrom while request m is outstanding (it
\* receives every ICMP packet that reaches the host): the echo reply to m, an
\* echo reply carrying another identifier (another process's) or another
\* sequence number (an earlier probe's), an echo reply numbered as the other
\* family's, neighbor discovery messages and a time exceeded message (no
\* identifier or sequence number), and a packet cut short.
Packets(m) ==
    LET w == Marshal(m)
        other == (w.ID + 1) % Uint16
        stale == IF w.Seq > 0 THEN {<<w.ID, w.Seq - 1>>} ELSE {}
    IN  { [len |-> 26, Type |-> EchoReplyType(w.Type), ID |-> p[1], Seq |-> p[2]] :
             p \in {<<w.ID, w.Seq>>, <<other, w.Seq>>} \cup stale }
        \cup { [len |-> 26, Type |-> OtherEchoReplyType(w.Type), ID |-> w.ID, Seq |-> w.Seq] }
        \cup { [len |-> 26, Type |-> t, ID |-> 0, Seq |-> 0] :
             t \in {ICMPv6TypeNeighborSolicitation, ICMPv6TypeNeighborAdvertisement,
                    ICMPTypeTimeExceeded} }
        \cup { [len |-> 2, Type |-> EchoReplyType(w.Type), ID |-> 0, Seq |-> 0] }

\* Mutant: the length of what was read is not checked.
ParseMessage_Unchecked(proto, b) ==
    [err |-> "nil", Type |-> <<IF proto = protocolICMP6 THEN 6 ELSE 4, b.Type>>]

\* icmp.ParseMessage(proto, b): an error for fewer than 4 bytes; otherwise the
\* type is the first byte read as a type of the family proto names.
ParseMessage(proto, b) ==
    IF b.len < 4
    THEN [err |-> "parse", Type |-> <<0, 0>>]
    ELSE [err |-> "nil", Type |-> <<IF proto = protocolICMP6 THEN 6 ELSE 4, b.Type>>]

\* Mutant: the neighbor discovery case is missing from the switch.
NilCases_EchoOnly == { <<4, ICMPTypeEchoReply>>, <<6, ICMPv6TypeEchoReply>> }

\* Mutant: a case matches on the number alone, whatever the family.
NilCases_AnyFamily ==
    { <<f, n>> : f \in {4, 6},
                 n \in {ICMPv6TypeNeighborSolicitation, ICMPv6TypeNeighborAdvertisement,
                        ICMPTypeEchoReply, ICMPv6TypeEchoReply} }

\* The cases of the switch on reply.Type that return nil: a case matches when
\* both the family of the type and its number are the same.
NilCases == { <<6, ICMPv6TypeNeighborSolicitation>>, <<6, ICMPv6TypeNeighborAdvertisement>>,
              <<4, ICMPTypeEchoReply>>, <<6, ICMPv6TypeEchoReply>> }

\* fmt.Errorf("Received %s instead of echo reply", reply.Type)
Errorf(type) == "Received " \o ToString(type) \o " instead of echo reply"

\* Mutant: the switch has no default case.
Classify_NoDefault(type) == "nil"

\* The error ping returns for a parsed reply type.
Classify(type) == IF type \in NilCases THEN "nil" ELSE Errorf(type)

\* ------------------------------------------------------------------- state

Init ==
    /\ pingCount \in PingCountFlags
    /\ timeToLive \in (IF pingCount = 1 THEN TimeToLiveFlags ELSE {DefaultTTL})
    /\ ipVersion \in IPVersionFlags
    /\ ttl = 0
    /\ wantIPv6 = FALSE
    /\ i = 0
    /\ logErr = "nil"
    /\ count = 0
    /\ lost = 0
    /\ rtt = 0
    /\ loss = ZeroLoss
    /\ rttAll = <<>>
    /\ totalDifferencesRTT = 0
    /\ jitter = 0
    /\ listenPacket = NoSocket
    /\ request = NoMessage
    /\ reply = NoPacket
    /\ pc = [t \in Threads |-> IF t = "main" THEN "L86" ELSE "L245"]
    /\ val = [t \in Threads |-> 0]
    /\ rng = [t \in Threads |-> 0]
    /\ acc = [t \in Threads |-> 0]
    /\ summaries = <<>>
    /\ exited = "no"
    /\ allTimedOut = TRUE
    /\ pendingAtSignal = FALSE
    /\ delivered = FALSE
    /\ line = NoLine
    /\ unread = FALSE

\* An unbounded run (-c -1, the default) as it stands at the loop test after
\* LongRunStart probes that all failed before anything was sent, with no
\* signal so far.
LongRunInit ==
    /\ pingCount = -1
    /\ timeToLive = DefaultTTL
    /\ ipVersion \in IPVersionFlags
    /\ ttl = DefaultTTL
    /\ wantIPv6 = (ipVersion = 6)
    /\ i = LongRunStart
    /\ logErr = "nil"
    /\ count = LongRunStart
    /\ lost = LongRunStart
    /\ rtt = 0
    /\ loss = LossPercent(LongRunStart, LongRunStart)
    /\ rttAll = <<>>
    /\ totalDifferencesRTT = 0
    /\ jitter = 0
    /\ listenPacket = NoSocket
    /\ request = NoMessage
    /\ reply = NoPacket
    /\ pc = [t \in Threads |-> IF t = "main" THEN "L119" ELSE "L246"]
    /\ val = [t \in Threads |-> 0]
    /\ rng = [t \in Threads |-> 0]
    /\ acc = [t \in Threads |-> 0]
    /\ summaries = <<>>
    /\ exited = "no"
    /\ allTimedOut = FALSE
    /\ pendingAtSignal = FALSE
    /\ delivered = FALSE
    /\ line = [Seq |-> LongRunStart, RTT |-> 0,
                Loss |-> LossPercent(LongRunStart, LongRunStart)]
    /\ unread = TRUE

Running(t, l) == exited = "no" /\ pc[t] = l
Goto(t, l) == pc' = [pc EXCEPT ![t] = l]

\* ------------------------------------------------------------ main: flags

CheckPingCount ==
    /\ Running("main", "L86")
    /\ pingCount' = IF pingCount < -1 THEN -1 ELSE pingCount
    /\ Goto("main", "L92")
    /\ UNCHANGED <<timeToLive, ipVersion, ttl, wantIPv6, i, logErr, statVars,
                   pingVars, showVars, summaries, exited, allTimedOut, pendingAtSignal,
                   delivered, line, unread>>

CheckTimeToLive ==
    /\ Running("main", "L92")
    /\ timeToLive' = IF timeToLive < 0 THEN DefaultTTL ELSE timeToLive
    /\ ttl' = timeToLive'
    /\ Goto("main", "L99")
    /\ UNCHANGED <<pingCount, ipVersion, wantIPv6, i, logErr, statVars,
                   pingVars, showVars, summaries, exited, allTimedOut, pendingAtSignal,
                   delivered, line, unread>>

EstablishIPVersion ==
    /\ Running("main", "L99")
    /\ wantIPv6' = (ipVersion = 6)
    /\ Goto("main", "L119")
    /\ UNCHANGED <<pingCount, timeToLive, ipVersion, ttl, i, logErr, statVars,
                   pingVars, showVars, summaries, exited, allTimedOut, pendingAtSignal,
                   delivered, line, unread>>

\* ------------------------------------------------------- main: ping loop

\* Mutant: the loop condition is i < *pingCount.
LoopTest_LessThan ==
    /\ Running("main", "L119")
    /\ IF i < pingCount
       THEN Followed(i) /\ Goto("main", "L146")
       ELSE Goto("main", "L141")
    /\ line' = NoLine
    /\ unread' = FALSE
    /\ UNCHANGED <<flagVars, i, logErr, statVars, pingVars, showVars, summaries,
                   exited, allTimedOut, pendingAtSignal, delivered>>

\* for i := 0; i != *pingCount; ...
LoopTest ==
    /\ Running("main", "L119")
    /\ IF i # pingCount
       THEN Followed(i) /\ Goto("main", "L146")
       ELSE Goto("main", "L141")
    /\ line' = NoLine
    /\ unread' = FALSE
    /\ UNCHANGED <<flagVars, i, logErr, statVars, pingVars, showVars, summaries,
                   exited, allTimedOut, pendingAtSignal, delivered>>

\* ---------------------------------------------------------------- ping

\* Mutant: the deferred Close is missing.
Return_NoClose(err) ==
    /\ logErr' = err
    /\ UNCHANGED <<listenPacket, request, reply>>
    /\ Goto("main", "L122")

\* return ..., err: the deferred Close runs.  The request and the bytes read
\* stay in view until the loop's next statement, beside the error returned.
Return(err) ==
    /\ logErr' = err
    /\ listenPacket' = NoSocket
    /\ UNCHANGED <<request, reply>>
    /\ Goto("main", "L122")

\* A return before anything was read: this probe did not time out.
Fail(err) == Return(err) /\ allTimedOut' = FALSE /\ unread' = TRUE

\* Mutant: stats.rtt is not reset.
PingEnter_NoReset ==
    /\ Running("main", "L146")
    /\ Goto("main", "L173")
    /\ UNCHANGED <<flagVars, i, logErr, statVars, pingVars, showVars, summaries,
                   exited, allTimedOut, pendingAtSignal, delivered, line, unread>>

\* stats.rtt = 0, and the family's parameters.
PingEnter ==
    /\ Running("main", "L146")
    /\ rtt' = 0
    /\ Goto("main", "L173")
    /\ UNCHANGED <<flagVars, i, logErr, count, lost, loss, rttAll,
                   totalDifferencesRTT, jitter, pingVars, showVars, summaries,
                   exited, allTimedOut, pendingAtSignal, delivered, line, unread>>

ListenPacket ==
    /\ Running("main", "L173")
    /\ \/ /\ listenPacket' = [open |-> TRUE, ttl |-> DefaultTTL]
          /\ Goto("main", "L180")
          /\ UNCHANGED <<logErr, request, reply, allTimedOut, unread>>
       \/ Fail("listen")
    /\ UNCHANGED <<flagVars, i, statVars, showVars, summaries, exited, pendingAtSignal,
                   delivered, line>>

SetTTL ==
    /\ Running("main", "L180")
    /\ \E t \in SetTTLResults(wantIPv6, ttl, listenPacket.ttl) :
          listenPacket' = [listenPacket EXCEPT !.ttl = t]
    /\ Goto("main", "L187")
    /\ UNCHANGED <<flagVars, i, logErr, statVars, request, reply, showVars,
                   summaries, exited, allTimedOut, pendingAtSignal, delivered,
                   line, unread>>

ResolveIPAddr ==
    /\ Running("main", "L187")
    /\ \/ Goto("main", "L193") /\ UNCHANGED <<logErr, pingVars, allTimedOut, unread>>
       \/ Fail("resolve")
    /\ UNCHANGED <<flagVars, i, statVars, showVars, summaries, exited, pendingAtSignal,
                   delivered, line>>

MarshalRequest ==
    /\ Running("main", "L193")
    /\ \/ /\ request' = EchoRequest(wantIPv6, count)
          /\ Goto("main", "L208")
          /\ UNCHANGED <<logErr, listenPacket, reply, allTimedOut, unread>>
       \/ Fail("marshal")
    /\ UNCHANGED <<flagVars, i, statVars, showVars, summaries, exited, pendingAtSignal,
                   delivered, line>>

WriteTo ==
    /\ Running("main", "L208")
    /\ \/ Goto("main", "L214") /\ UNCHANGED <<logErr, pingVars, allTimedOut, unread>>
       \/ Fail("write")
    /\ UNCHANGED <<flagVars, i, statVars, showVars, summaries, exited, pendingAtSignal,
                   delivered, line>>

SetReadDeadline ==
    /\ Running("main", "L214")
    /\ \/ Goto("main", "L220") /\ UNCHANGED <<logErr, pingVars, allTimedOut, unread>>
       \/ Fail("deadline")
    /\ UNCHANGED <<flagVars, i, statVars, showVars, summaries, exited, pendingAtSignal,
                   delivered, line>>

\* The blocking read: a packet arrives, or the deadline passes and nothing is
\* read (replyRead = 0; the error is overwritten by ParseMessage's).
ReadFrom ==
    /\ Running("main", "L220")
    /\ \/ /\ reply' \in Packets(request)
          /\ allTimedOut' = FALSE
       \/ /\ reply' = NoPacket
          /\ UNCHANGED allTimedOut
    /\ pendingAtSignal' = FALSE
    /\ Goto("main", "L221")
    /\ UNCHANGED <<flagVars, i, logErr, statVars, listenPacket, request, showVars,
                   summaries, exited, delivered, line, unread>>

\* stats.rtt = time.Since(timeSent).Round(...), ParseMessage, the switch.
ParseReply ==
    /\ Running("main", "L221")
    /\ \E e \in IF reply.len = 0 THEN {ReadDeadline} ELSE ReplyElapsed :
          rtt' = Round(e, RoundUnit)
    /\ LET m == ParseMessage(ProtocolICMP(wantIPv6), reply)
       IN  Return(IF m.err # "nil" THEN m.err ELSE Classify(m.Type))
    /\ UNCHANGED <<flagVars, i, count, lost, loss, rttAll, totalDifferencesRTT,
                   jitter, showVars, summaries, exited, allTimedOut, pendingAtSignal,
                   delivered, line, unread>>

\* ------------------------------------------------- main: update statistics

\* Mutant: an error of the probe ends the loop.
CountLost_Fatal ==
    /\ Running("main", "L122")
    /\ logErr # "nil"
    /\ count' = count + 1
    /\ request' = NoMessage
    /\ reply' = NoPacket
    /\ Goto("main", "L141")
    /\ UNCHANGED <<flagVars, i, logErr, lost, rtt, loss, rttAll, totalDifferencesRTT,
                   jitter, listenPacket, showVars, summaries, exited, allTimedOut,
                   pendingAtSignal, delivered, line, unread>>

\* if logErr != nil { stats.count++ ...
CountLost ==
    /\ Running("main", "L122")
    /\ logErr # "nil"
    /\ count' = count + 1
    /\ request' = NoMessage
    /\ reply' = NoPacket
    /\ Goto("main", "L124")
    /\ UNCHANGED <<flagVars, i, logErr, lost, rtt, loss, rttAll, totalDifferencesRTT,
                   jitter, listenPacket, showVars, summaries, exited, allTimedOut,
                   pendingAtSignal, delivered, line, unread>>

\* Mutant: lost is not counted.
LostIncrement_Skipped ==
    /\ Running("main", "L124")
    /\ logErr' = "nil"
    /\ Goto("main", "L130")
    /\ UNCHANGED <<flagVars, i, statVars, pingVars, showVars, summaries, exited,
                   allTimedOut, pendingAtSignal, delivered, line, unread>>

\* ... stats.lost++; log.Printf("ERROR: ...") }
LostIncrement ==
    /\ Running("main", "L124")
    /\ lost' = lost + 1
    /\ logErr' = "nil"
    /\ Goto("main", "L130")
    /\ UNCHANGED <<flagVars, i, count, rtt, loss, rttAll, totalDifferencesRTT,
                   jitter, pingVars, showVars, summaries, exited, allTimedOut,
                   pendingAtSignal, delivered, line, unread>>

\* } else { stats.count++ ...
CountReceived ==
    /\ Running("main", "L122")
    /\ logErr = "nil"
    /\ count' = count + 1
    /\ request' = NoMessage
    /\ reply' = NoPacket
    /\ Goto("main", "L128")
    /\ UNCHANGED <<flagVars, i, logErr, lost, rtt, loss, rttAll, totalDifferencesRTT,
                   jitter, listenPacket, showVars, summaries, exited, allTimedOut,
                   pendingAtSignal, delivered, line, unread>>

\* Mutant: the RTT replaces what was recorded.
AppendRTT_Replace ==
    /\ Running("main", "L128")
    /\ rttAll' = <<rtt>>
    /\ Goto("main", "L130")
    /\ UNCHANGED <<flagVars, i, logErr, count, lost, rtt, loss, totalDifferencesRTT,
                   jitter, pingVars, showVars, summaries, exited, allTimedOut,
                   pendingAtSignal, delivered, line, unread>>

\* ... stats.rttAll = append(stats.rttAll, stats.rtt) }
AppendRTT ==
    /\ Running("main", "L128")
    /\ rttAll' = Append(rttAll, rtt)
    /\ Goto("main", "L130")
    /\ UNCHANGED <<flagVars, i, logErr, count, lost, rtt, loss, totalDifferencesRTT,
                   jitter, pingVars, showVars, summaries, exited, allTimedOut,
                   pendingAtSignal, delivered, line, unread>>

\* stats.loss = (float64(stats.lost) / float64(stats.count)) * 100.0
UpdateLoss ==
    /\ Running("main", "L130")
    /\ loss' = LossPercent(lost, count)
    /\ Goto("main", "L132")
    /\ UNCHANGED <<flagVars, i, logErr, count, lost, rtt, rttAll, totalDifferencesRTT,
                   jitter, pingVars, showVars, summaries, exited, allTimedOut,
                   pendingAtSignal, delivered, line, unread>>

\* What log.Printf("Seq: %d ... RTT: %s ... Loss: %.2f%%") reads.
ReportLine == [Seq |-> count, RTT |-> rtt, Loss |-> loss]

\* log.Printf("Seq: ..."); time.Sleep(time.Second); i++
PrintAndSleep ==
    /\ Running("main", "L132")
    /\ line' = ReportLine
    /\ i' = i + 1
    /\ Goto("main", "L119")
    /\ UNCHANGED <<flagVars, logErr, statVars, pingVars, showVars, summaries,
                   exited, allTimedOut, pendingAtSignal, delivered, unread>>

\* ---------------------------------------------------------- showStatistics

\* Where showStatistics returns to: main's return, the goroutine's os.Exit.
ReturnLine(t) == IF t = "main" THEN "L142" ELSE "L250"

\* stats.showStatistics() in main, after the loop.
MainShowStatistics ==
    /\ Running("main", "L141")
    /\ Goto("main", "L258")
    /\ UNCHANGED <<flagVars, i, logErr, statVars, pingVars, showVars, summaries,
                   exited, allTimedOut, pendingAtSignal, delivered, line, unread>>

\* if len(stats.rttAll) > 1
ShowTest(t) ==
    /\ Running(t, "L258")
    /\ Goto(t, IF Len(rttAll) > 1 THEN "L260" ELSE "L270")
    /\ UNCHANGED <<flagVars, i, logErr, statVars, pingVars, showVars, summaries,
                   exited, allTimedOut, pendingAtSignal, delivered, line, unread>>

\* for val := range stats.rttAll[:len(stats.rttAll)-1]: the slice is taken once.
ShowRange(t) ==
    /\ Running(t, "L260")
    /\ rng' = [rng EXCEPT ![t] = Len(rttAll) - 1]
    /\ val' = [val EXCEPT ![t] = 0]
    /\ Goto(t, "L261")
    /\ UNCHANGED <<flagVars, i, logErr, statVars, pingVars, acc, summaries,
                   exited, allTimedOut, pendingAtSignal, delivered, line, unread>>

\* The loop test, diff, and the load of stats.totalDifferencesRTT += diff.
ShowLoad(t) ==
    /\ Running(t, "L261")
    /\ IF val[t] < rng[t]
       THEN /\ acc' = [acc EXCEPT ![t] = totalDifferencesRTT
                           + AbsDiff(rttAll[val[t] + 1], rttAll[val[t] + 2])]
            /\ Goto(t, "L265")
       ELSE /\ Goto(t, "L268")
            /\ UNCHANGED acc
    /\ UNCHANGED <<flagVars, i, logErr, statVars, pingVars, val, rng, summaries,
                   exited, allTimedOut, pendingAtSignal, delivered, line, unread>>

\* The store of stats.totalDifferencesRTT += diff, and val++.
ShowStore(t) ==
    /\ Running(t, "L265")
    /\ totalDifferencesRTT' = acc[t]
    /\ val' = [val EXCEPT ![t] = val[t] + 1]
    /\ Goto(t, "L261")
    /\ UNCHANGED <<flagVars, i, logErr, count, lost, rtt, loss, rttAll, jitter,
                   pingVars, rng, acc, summaries, exited, allTimedOut, pendingAtSignal,
                   delivered, line, unread>>

\* stats.jitter = time.Duration(int64(total) / int64(len(stats.rttAll)-1))
ShowJitter(t) ==
    /\ Running(t, "L268")
    /\ jitter' = JitterOf(totalDifferencesRTT, Len(rttAll) - 1)
    /\ Goto(t, "L270")
    /\ UNCHANGED <<flagVars, i, logErr, count, lost, rtt, loss, rttAll,
                   totalDifferencesRTT, pingVars, showVars, summaries, exited,
                   allTimedOut, pendingAtSignal, delivered, line, unread>>

\* The summary line: what Printf reads; beside it, the RTT sequence as it
\* stands then and the length of the slice this call ranged over (0: none).
Summary(t) == [by |-> t, sent |-> count, lost |-> lost, loss |-> loss,
               jitter |-> jitter, rtts |-> rttAll, ranged |-> rng[t]]

\* fmt.Printf("Packets sent: ...")
ShowPrint(t) ==
    /\ Running(t, "L270")
    /\ summaries' = Append(summaries, Summary(t))
    /\ val' = [val EXCEPT ![t] = 0]
    /\ rng' = [rng EXCEPT ![t] = 0]
    /\ acc' = [acc EXCEPT ![t] = 0]
    /\ Goto(t, ReturnLine(t))
    /\ UNCHANGED <<flagVars, i, logErr, statVars, pingVars, exited, allTimedOut,
                   pendingAtSignal, delivered, line, unread>>

\* main returns: the process ends.
MainReturn ==
    /\ Running("main", "L142")
    /\ exited' = "main"
    /\ UNCHANGED <<flagVars, i, logErr, statVars, pingVars, pc, showVars, summaries,
                   allTimedOut, pendingAtSignal, delivered, line, unread>>

\* ------------------------------------------------------------ closeHandler

\* The goroutine reaches <-c.
HandlerWait ==
    /\ Running("handler", "L245")
    /\ Goto("handler", "L246")
    /\ UNCHANGED <<flagVars, i, logErr, statVars, pingVars, showVars, summaries,
                   exited, allTimedOut, pendingAtSignal, delivered, line, unread>>

\* SIGINT or SIGTERM is delivered while the goroutine has not reached <-c: c
\* is unbuffered and the send to it does not block, so the signal is dropped.
SignalDropped ==
    /\ Running("handler", "L245")
    /\ delivered' = TRUE
    /\ UNCHANGED <<flagVars, i, logErr, statVars, pingVars, pc, showVars, summaries,
                   exited, allTimedOut, pendingAtSignal, line, unread>>

\* SIGINT or SIGTERM is delivered to the goroutine blocked in <-c.
Signal ==
    /\ Running("handler", "L246")
    /\ Goto("handler", "L249")
    /\ pendingAtSignal' = (pc["main"] = "L220")
    /\ delivered' = TRUE
    /\ UNCHANGED <<flagVars, i, logErr, statVars, pingVars, showVars, summaries,
                   exited, allTimedOut, line, unread>>

\* Mutant: the goroutine exits without printing the summary.
HandlerSkipsSummary ==
    /\ Running("handler", "L249")
    /\ Goto("handler", "L250")
    /\ UNCHANGED <<flagVars, i, logErr, statVars, pingVars, showVars, summaries,
                   exited, allTimedOut, pendingAtSignal, delivered, line, unread>>

\* fmt.Println(": Signal Interrupt received... "); stats.showStatistics()
HandlerShowStatistics ==
    /\ Running("handler", "L249")
    /\ Goto("handler", "L258")
    /\ UNCHANGED <<flagVars, i, logErr, statVars, pingVars, showVars, summaries,
                   exited, allTimedOut, pendingAtSignal, delivered, line, unread>>

\* os.Exit(0)
HandlerExit ==
    /\ Running("handler", "L250")
    /\ exited' = "signal"
    /\ UNCHANGED <<flagVars, i, logErr, statVars, pingVars, pc, showVars, summaries,
                   allTimedOut, pendingAtSignal, delivered, line, unread>>

\* ----------------------------------------------------------- specification

Next ==
    \/ CheckPingCount
    \/ CheckTimeToLive
    \/ EstablishIPVersion
    \/ LoopTest
    \/ PingEnter
    \/ ListenPacket
    \/ SetTTL
    \/ ResolveIPAddr
    \/ MarshalRequest
    \/ WriteTo
    \/ SetReadDeadline
    \/ ReadFrom
    \/ ParseReply
    \/ CountLost
    \/ LostIncrement
    \/ CountReceived
    \/ AppendRTT
    \/ UpdateLoss
    \/ PrintAndSleep
    \/ MainShowStatistics
    \/ MainReturn
    \/ HandlerWait
    \/ SignalDropped
    \/ Signal
    \/ HandlerShowStatistics
    \/ HandlerExit
    \/ \E t \in Threads : ShowTest(t)
    \/ \E t \in Threads : ShowRange(t)
    \/ \E t \in Threads : ShowLoad(t)
    \/ \E t \in Threads : ShowStore(t)
    \/ \E t \in Threads : ShowJitter(t)
    \/ \E t \in Threads : ShowPrint(t)

Spec == Init /\ [][Next]_vars

\* The same run under the scheduling Go gives its goroutines: the main
\* goroutine is never starved, and each call it blocks in (the read with its
\* deadline, the one-second sleep) returns.
Main ==
    \/ CheckPingCount \/ CheckTimeToLive \/ EstablishIPVersion \/ LoopTest
    \/ PingEnter \/ ListenPacket \/ SetTTL \/ ResolveIPAddr \/ MarshalRequest
    \/ WriteTo \/ SetReadDeadline \/ ReadFrom \/ ParseReply \/ CountLost
    \/ LostIncrement \/ CountReceived \/ AppendRTT \/ UpdateLoss \/ PrintAndSleep
    \/ MainShowStatistics \/ MainReturn
    \/ ShowTest("main") \/ ShowRange("main") \/ ShowLoad("main")
    \/ ShowStore("main") \/ ShowJitter("main") \/ ShowPrint("main")

FairSpec == Spec /\ WF_vars(Main)

\* The runs of Spec, and the long run taken up where it stands.
LongRunSpec == (Init \/ LongRunInit) /\ [][Next]_vars

\* ------------------------------------------------------------------ claims

\* Where main is once the ping loop has ended.
AfterLoop == {"L141", "L258", "L260", "L261", "L265", "L268", "L270", "L142"}

\* A step of the main goroutine.
MainStep == pc'["main"] # pc["main"] \/ exited' = "main"

\* loss = 100 * lost / sent, or 0 when nothing was sent.
LossFormula(ls, l, c) ==
    IF c > 0 THEN ls.num * c = 100 * l * ls.den ELSE ls.num = 0

\* C1: in the initial state and at the end of every iteration of the ping
\* loop, lost <= count, and the stored loss is 100 * lost / count, or 0 while
\* count = 0.
C1_LossInvariant ==
    pc["main"] \in {"L86", "L132", "L119"} =>
        /\ lost <= count
        /\ LossFormula(loss, lost, count)

\* An iteration has ended with one probe of three lost: the loss is 100/3.
C1_Witness ==
    /\ pc["main"] = "L132"
    /\ count = 3
    /\ lost = 1
    /\ loss = [num |-> 100, den |-> 3]

RECURSIVE SumAbsDiff(_)
SumAbsDiff(s) ==
    IF Len(s) < 2 THEN 0
    ELSE AbsDiff(s[1], s[2]) + SumAbsDiff(Tail(s))

\* The mean absolute difference of consecutive RTTs, in nanoseconds.
MeanAbsDiff(s) ==
    IF Len(s) < 2 THEN 0 ELSE (SumAbsDiff(s) * Microsecond) \div (Len(s) - 1)

\* The summary was computed over the RTT sequence as it stands when printed:
\* no RTT was appended between the call's reading the sequence and its print.
Settled(s) == s.ranged = (IF Len(s.rtts) < 2 THEN 0 ELSE Len(s.rtts) - 1)

\* C2: the jitter a summary reports is the mean absolute difference of the
\* consecutive recorded RTTs, and zero for fewer than two RTTs (stated for the
\* summaries computed with no RTT appended meanwhile).
C2_JitterIsMeanAbsDiff ==
    \A k \in DOMAIN summaries :
        Settled(summaries[k]) => summaries[k].jitter = MeanAbsDiff(summaries[k].rtts)

\* C3: two summaries printed with the same statistics recorded (sent, lost,
\* loss and the RTT sequence), each computed with no RTT appended meanwhile,
\* report the same values, the jitter included.
C3_SummaryIdempotent ==
    \A a, b \in DOMAIN summaries :
        ( /\ Settled(summaries[a])
          /\ Settled(summaries[b])
          /\ summaries[a].sent = summaries[b].sent
          /\ summaries[a].lost = summaries[b].lost
          /\ summaries[a].loss = summaries[b].loss
          /\ summaries[a].rtts = summaries[b].rtts )
        => summaries[a].jitter = summaries[b].jitter

\* The echo reply types.
EchoReplyTypes == {ICMPTypeEchoReply, ICMPv6TypeEchoReply}

\* C4: when ping has returned no error for an echo reply, the reply carries
\* the identifier and the sequence number of the request just sent.
C4_SuccessOnlyOnMatchingReply ==
    ( /\ pc["main"] = "L122"
      /\ logErr = "nil"
      /\ reply.Type \in EchoReplyTypes )
    => /\ reply.ID = Marshal(request).ID
       /\ reply.Seq = Marshal(request).Seq

\* C5 as stated: when the signal comes while a probe's read is pending, the
\* process does not end before that read has completed or timed out.
C5_ExitsAfterProbeRecorded ==
    exited = "signal" => ~pendingAtSignal

\* C5 as amended: a signal does not cancel the probe (no step of the
\* signal-handling goroutine but os.Exit changes where main is or what ping
\* holds), and nothing waits for it either: the goroutine ends the process
\* itself, right after printing its summary, and the main loop ends only when
\* i = *pingCount, never because a signal came.
C5_HandlerEndsProcess ==
    /\ [](exited = "signal" =>
            /\ pc["handler"] = "L250"
            /\ \E k \in DOMAIN summaries : summaries[k].by = "handler")
    /\ [](pc["main"] \in AfterLoop => i = pingCount)
    /\ [][pc'["handler"] # pc["handler"] =>
            /\ pc'["main"] = pc["main"]
            /\ UNCHANGED <<pingVars, logErr, i, count, lost, rtt, loss, rttAll>>]_vars

\* The signal came while a probe's read was pending, and the process has
\* ended with that read still pending.
C5_Witness ==
    /\ exited = "signal"
    /\ pendingAtSignal
    /\ pc["main"] = "L220"

\* C6: the loss a summary printed on a signal reports is 100 * lost / sent
\* (0 when sent = 0) for the sent and lost that summary reports.
C6_SignalSummaryLossFormula ==
    \A k \in DOMAIN summaries :
        summaries[k].by = "handler" =>
            LossFormula(summaries[k].loss, summaries[k].lost, summaries[k].sent)

\* C7: after ping has returned an error, the loop adds one to count, then one
\* to lost, appends no RTT, and goes on to its next iteration; main leaves
\* the loop only when i = *pingCount.
C7_ProbeErrorIsLocal ==
    /\ [][MainStep =>
            /\ (pc["main"] = "L122" /\ logErr # "nil") =>
                  /\ pc'["main"] = "L124"
                  /\ count' = count + 1
                  /\ UNCHANGED <<lost, rttAll, i>>
            /\ pc["main"] = "L124" =>
                  /\ pc'["main"] = "L130"
                  /\ lost' = lost + 1
                  /\ UNCHANGED <<count, rttAll, i>>
            /\ pc["main"] = "L130" =>
                  /\ pc'["main"] = "L132"
                  /\ UNCHANGED <<count, lost, rttAll, i>>
            /\ pc["main"] = "L132" =>
                  /\ pc'["main"] = "L119"
                  /\ i' = i + 1
                  /\ UNCHANGED <<count, lost, rttAll>>]_vars
    /\ [](logErr # "nil" => pc["main"] \in {"L122", "L124"})
    /\ [](pc["main"] \in AfterLoop => i = pingCount)
    /\ [](exited = "main" => pc["main"] = "L142")

\* A probe is begun after two probes that both failed.
C7_Witness ==
    /\ pc["main"] = "L146"
    /\ count = 2
    /\ lost = 2

\* C8: main is past the loop only with a finite count n >= 0, after exactly n
\* iterations and n probes counted; the summary main prints reports sent = n;
\* main ends the process only after printing it; a count below -1 is read as
\* -1, and with -1 main never gets past the loop.  Under fair scheduling a run
\* with a finite count ends.
C8_FiniteCountRunsExactly ==
    /\ [](pc["main"] \in AfterLoop =>
            /\ pingCount >= 0
            /\ i = pingCount
            /\ count = pingCount)
    /\ [](\A k \in DOMAIN summaries :
            summaries[k].by = "main" => summaries[k].sent = pingCount)
    /\ [](exited = "main" => \E k \in DOMAIN summaries : summaries[k].by = "main")
    /\ [](pc["main"] # "L86" => pingCount >= -1)
    /\ [](pc["main"] = "L119" => count = i)
    /\ (pingCount >= 0 ~> exited # "no")

\* A run of three probes has ended by main's return, with no signal.
C8_Witness ==
    /\ exited = "main"
    /\ pingCount = 3
    /\ pc["handler"] \in {"L245", "L246"}
    /\ summaries # <<>>
    /\ summaries[1].sent = 3

\* C9: with a finite count n >= 1 and every probe timed out, the summary main
\* prints after the loop reports sent = n, lost = n and a loss of 100.
C9_AllTimeoutsSummary ==
    \A k \in DOMAIN summaries :
        (summaries[k].by = "main" /\ pingCount >= 1 /\ allTimedOut) =>
            /\ summaries[k].sent = pingCount
            /\ summaries[k].lost = pingCount
            /\ summaries[k].loss = [num |-> 100, den |-> 1]

\* Three probes, all timed out, and main's summary printed.
C9_Witness ==
    /\ pingCount = 3
    /\ allTimedOut
    /\ \E k \in DOMAIN summaries : summaries[k].by = "main"

\* The IPv6 neighbor discovery types.
NeighborDiscoveryTypes ==
    {ICMPv6TypeNeighborSolicitation, ICMPv6TypeNeighborAdvertisement}

\* ping has returned from reading an IPv6 neighbor discovery message.
NeighborDiscoveryRead ==
    /\ pc["main"] = "L122"
    /\ wantIPv6
    /\ reply.len >= 4
    /\ reply.Type \in NeighborDiscoveryTypes

\* C10: a probe that read an IPv6 neighbor solicitation or advertisement
\* returns no error, and the iteration adds one to count and nothing to lost.
C10_NeighborDiscoveryIsSuccess ==
    /\ [](NeighborDiscoveryRead => logErr = "nil")
    /\ [][MainStep =>
            /\ (pc["main"] = "L122" /\ logErr = "nil") =>
                  /\ pc'["main"] = "L128"
                  /\ count' = count + 1
                  /\ lost' = lost
            /\ pc["main"] = "L128" =>
                  /\ pc'["main"] = "L130"
                  /\ UNCHANGED <<count, lost>>]_vars

\* ping has returned from reading a neighbor advertisement, without an error.
C10_Witness ==
    /\ NeighborDiscoveryRead
    /\ reply.Type = ICMPv6TypeNeighborAdvertisement
    /\ logErr = "nil"

\* The family whose types ParseMessage reads the reply as.
Family == IF wantIPv6 THEN 6 ELSE 4

\* ping has returned from reading an echo reply numbered as the family's that
\* is not being probed: type 0 while probing IPv6, type 129 while probing IPv4.
OtherFamilyEchoRead ==
    /\ pc["main"] = "L122"
    /\ reply.len >= 4
    /\ reply.Type = (IF wantIPv6 THEN ICMPTypeEchoReply ELSE ICMPv6TypeEchoReply)

\* C11: a probe that read an echo reply of the other family than the probed
\* one returns the error of the switch's default case, and the iteration adds
\* one to count and then one to lost, and appends no RTT.
C11_OtherFamilyEchoReplyFails ==
    /\ [](OtherFamilyEchoRead => logErr = Errorf(<<Family, reply.Type>>))
    /\ [][(MainStep /\ OtherFamilyEchoRead) =>
            /\ pc'["main"] = "L124"
            /\ count' = count + 1
            /\ UNCHANGED <<lost, rttAll>>]_vars
    /\ [][(MainStep /\ pc["main"] = "L124") =>
            /\ pc'["main"] = "L130"
            /\ lost' = lost + 1
            /\ UNCHANGED <<count, rttAll>>]_vars

\* ping has returned an error from reading a type 0 reply while probing IPv6.
C11_Witness ==
    /\ OtherFamilyEchoRead
    /\ wantIPv6
    /\ reply.Type = ICMPTypeEchoReply
    /\ logErr # "nil"

\* ping has returned from reading a reply whose type, read in the probed
\* family, is none of the four the switch lets pass.
OtherTypeRead ==
    /\ pc["main"] = "L122"
    /\ reply.len >= 4
    /\ ~ \/ reply.Type = (IF wantIPv6 THEN ICMPv6TypeEchoReply ELSE ICMPTypeEchoReply)
         \/ wantIPv6 /\ reply.Type \in NeighborDiscoveryTypes

C13_RttAllAppendOnly ==
    /\ [][\/ rttAll' = rttAll
          \/ /\ pc["main"] = "L128"
             /\ pc'["main"] = "L130"
             /\ rttAll' = Append(rttAll, rtt)]_vars
    /\ [][(MainStep /\ pc["main"] = "L128") => rttAll' # rttAll]_vars
    /\ [][(MainStep /\ pc["main"] = "L122") =>
            pc'["main"] = (IF logErr = "nil" THEN "L128" ELSE "L124")]_vars
    /\ [](pc["main"] \in {"L132", "L119"} => Len(rttAll) = count - lost)

\* Two RTTs recorded in three probes, the second different from the first.
C13_Witness ==
    /\ pc["main"] = "L132"
    /\ count = 3
    /\ lost = 1
    /\ Len(rttAll) = 2
    /\ rttAll[1] # rttAll[2]

\* C14: at most one summary is printed in a run, and exactly one by the time
\* the process has ended, by main's return or on a signal.
C14_ExactlyOneSummary ==
    /\ Len(summaries) <= 1
    /\ exited # "no" => Len(summaries) = 1

\* The read has returned at its deadline with nothing read.
TimedOut ==
    /\ pc["main"] = "L221"
    /\ reply = NoPacket

\* C15: a read that ends at the deadline makes ping return an error; the
\* iteration then adds one to count and one to lost and appends no RTT.
C15_TimeoutIsFailure ==
    /\ [][(MainStep /\ TimedOut) =>
            /\ pc'["main"] = "L122"
            /\ logErr' # "nil"
            /\ UNCHANGED <<count, lost, rttAll>>]_vars
    /\ [][(MainStep /\ pc["main"] = "L122" /\ logErr # "nil") =>
            /\ pc'["main"] = "L124"
            /\ count' = count + 1
            /\ UNCHANGED <<lost, rttAll>>]_vars
    /\ [][(MainStep /\ pc["main"] = "L124") =>
            /\ pc'["main"] = "L130"
            /\ lost' = lost + 1
            /\ UNCHANGED <<count, rttAll>>]_vars
    /\ [](pc["main"] \in {"L132", "L119"} /\ allTimedOut =>
            lost = count /\ rttAll = <<>>)

\* Two probes have timed out, the second just counted lost.
C15_Witness ==
    /\ pc["main"] = "L130"
    /\ allTimedOut
    /\ count = 2
    /\ lost = 2
    /\ rtt = ReadDeadline

\* Where ping is once the TTL or hop limit has been set on its socket.
TTLSet == {"L187", "L193", "L208", "L214", "L220", "L221"}

\* C16: once *timeToLive has been checked it is not negative; the socket of
\* every probe carries, after SetTTL / SetHopLimit, the value kept then, 0
\* included.
C16_TTLExactlyAsRequested ==
    /\ pc["main"] \notin {"L86", "L92"} => (ttl = timeToLive /\ ttl >= 0)
    /\ pc["main"] \in TTLSet => listenPacket.ttl = timeToLive

\* C17: no step of the signal-handling goroutine changes a field of the
\* statistics.
C17_HandlerWritesNothing ==
    [][pc'["handler"] # pc["handler"] => UNCHANGED statVars]_vars

\* Where ping is while its socket is open.
SocketOpen == {"L180", "L187", "L193", "L208", "L214", "L220", "L221"}

\* C18: the socket is open only inside the ping call that opened it; every
\* return of ping, with an error or without, leaves it closed, so none is
\* open between iterations, after the loop, or when a call opens its own.
C18_SocketScopedToProbe ==
    /\ [](listenPacket.open <=> pc["main"] \in SocketOpen)
    /\ [][(MainStep /\ pc'["main"] = "L122") => ~listenPacket'.open]_vars
    /\ [][(MainStep /\ pc["main"] = "L173") => ~listenPacket.open]_vars

\* ping has returned the switch's default error, and the socket is closed.
C18_Witness ==
    /\ pc["main"] = "L122"
    /\ logErr \notin {"nil", "listen", "resolve", "marshal", "write", "deadline", "parse"}
    /\ ~listenPacket.open

\* C19: the first probe of a run carries sequence number 0, as written in 16
\* bits by Marshal, and no later probe of the run carries that number again.
C19_SequenceNumbersDistinct ==
    request # NoMessage =>
        (Marshal(request).Seq = 0 <=> count = 0)

\* A delivered signal has been received by the goroutine.
Received == pc["handler"] \notin {"L245", "L246"}

\* C20: a signal delivered after signal.Notify is received by the goroutine,
\* which is then on its way to the summary and to os.Exit; the process ends
\* on a signal only after the goroutine's summary.
C20_SignalLeadsToSummaryAndExit ==
    /\ delivered => Received
    /\ exited = "signal" =>
          \E k \in DOMAIN summaries : summaries[k].by = "handler"

\* Where ping is between its entry and the return of its read.
BeforeRead == {"L173", "L180", "L187", "L193", "L208", "L214", "L220"}

\* The errors ping returns before its read.
EarlyErrors == {"listen", "resolve", "marshal", "write", "deadline"}

\* C21: ping sets stats.rtt to zero on entry and it stays zero until the read
\* has returned; after a return before the read, with one of the early
\* errors, stats.rtt is zero through the rest of the iteration, and so is the
\* RTT on the iteration's report line, whatever earlier probes measured.
C21_RTTZeroBeforeRead ==
    /\ [][(MainStep /\ pc["main"] = "L146") => rtt' = 0]_vars
    /\ [](pc["main"] \in BeforeRead => rtt = 0)
    /\ [](pc["main"] = "L122" => (unread <=> logErr \in EarlyErrors))
    /\ [](unread => rtt = 0)
    /\ [](unread /\ line # NoLine => line.RTT = 0)

\* The second probe failed before its read, after a first that measured 20ms:
\* its report line shows an RTT of zero.
C21_Witness ==
    /\ unread
    /\ line # NoLine
    /\ line.Seq = 2
    /\ line.RTT = 0
    /\ rttAll = <<20000>>

\* C22: the echo request of the k-th probe (the loop variable i is k - 1
\* then) carries, as written in 16 bits by Marshal, sequence number k - 1; the
\* report line of that probe (i is k once it is printed) shows Seq = k.
C22_RequestSeqOneBehindReport ==
    /\ request # NoMessage => Marshal(request).Seq = i
    /\ line # NoLine => line.Seq = i

====
